---- MODULE Spec2Model ----
(***************************************************************************)
(* Single-machine pod admission of the scheduling core                     *)
(* (src/pkg/operator/logger.go, package scheduling): NewMachine,           *)
(* Machine.Add, Machine.FinalizeScheduling, InstanceTypeList,              *)
(* filterInstanceTypesByRequirements and hasOffering.                      *)
(*                                                                         *)
(* The requirement-set algebra, the topology tracker, the host-port        *)
(* ledger, the taint set and the resource helpers are packages of the      *)
(* repository that are not part of the source at hand; they are modelled   *)
(* from their interface contracts (section 6 of the specification).        *)
(***************************************************************************)
EXTENDS Integers, Sequences, FiniteSets, TLC

VARIABLES
    nodeID,     \* var nodeID int64: the process-wide hostname counter
    templates,  \* the machine templates the caller holds and builds machines from
    machines,   \* the machines built so far, in construction order
    topology,   \* the one Topology shared by every machine
    audit,      \* history, per machine: the hostname it was given, finalized
    lastOp,     \* history: the last call of the sequential orchestrator and its result
    calls,      \* the calls in progress on goroutines, each with its locals
    input,      \* the arguments of a call of a pure function
    output      \* its result, once it has returned

vars == <<nodeID, templates, machines, topology, audit, lastOp, calls, input, output>>

pure == <<input, output>>

----------------------------------------------------------------------------
(* Bounds of the model                                                     *)

MaxMachines == 2
MaxPods == 2
MaxListLen == 7

----------------------------------------------------------------------------
(* Label keys and values                                                   *)

LabelHostname == "hostname"
LabelTopologyZone == "zone"
LabelCapacityType == "captype"
LabelArch == "arch"

Keys == {LabelHostname, LabelTopologyZone, LabelCapacityType, LabelArch}

Zones == {"zA", "zB"}

ResourceNames == {"cpu", "mem"}

RECURSIVE SeqToSet(_)
SeqToSet(s) == IF s = <<>> THEN {} ELSE {Head(s)} \cup SeqToSet(Tail(s))

----------------------------------------------------------------------------
(* Requirement sets: label key -> allowed values.  A key the set does not  *)
(* constrain has has = FALSE.                                              *)

NoRequirement == [has |-> FALSE, vals |-> {}]

NewRequirement(values) == [has |-> TRUE, vals |-> values]

NewRequirements == [k \in Keys |-> NoRequirement]

Has(requirements, key) == requirements[key].has

Get(requirements, key) == requirements[key].vals

\* Requirements.Values(): the requirements held, one per constrained key
Values(requirements) ==
    {[key |-> k, vals |-> requirements[k].vals] : k \in {x \in Keys : requirements[x].has}}

\* Requirements.Add(values...): merge, intersecting on a key already held
RequirementsAdd(requirements, values) ==
    [k \in Keys |->
        LET new == {v \in values : v.key = k} IN
        IF new = {} THEN requirements[k]
        ELSE LET v == CHOOSE x \in new : TRUE IN
             IF requirements[k].has
             THEN NewRequirement(requirements[k].vals \cap v.vals)
             ELSE NewRequirement(v.vals)]

\* Requirements.Intersects(other) == nil: no shared key has an empty intersection
Intersects(a, b) ==
    \A k \in Keys : (a[k].has /\ b[k].has) => (a[k].vals \cap b[k].vals # {})

\* Requirements.Compatible(other) == nil
Compatible(a, b) == Intersects(a, b)

\* delete(requirements, key)
Delete(requirements, key) == [requirements EXCEPT ![key] = NoRequirement]

Only(key, values) == RequirementsAdd(NewRequirements, {[key |-> key, vals |-> values]})

----------------------------------------------------------------------------
(* Resource lists                                                          *)

ResourceList(cpu, mem) == [r \in ResourceNames |-> IF r = "cpu" THEN cpu ELSE mem]

\* resources.Merge: component-wise sum
Merge(a, b) == [r \in ResourceNames |-> a[r] + b[r]]

\* resources.Fits(candidate, total)
Fits(candidate, total) == \A r \in ResourceNames : candidate[r] <= total[r]

----------------------------------------------------------------------------
(* The instance type catalog                                               *)

Offering(zone, capacityType, available) ==
    [Zone |-> zone, CapacityType |-> capacityType, Available |-> available]

InstanceTypes ==
    [small |->
        [Name |-> "small",
         Requirements |-> RequirementsAdd(NewRequirements,
            {[key |-> LabelArch, vals |-> {"amd"}],
             [key |-> LabelTopologyZone, vals |-> {"zA"}],
             [key |-> LabelCapacityType, vals |-> {"od"}]}),
         Allocatable |-> ResourceList(2, 2),
         Offerings |-> {Offering("zA", "od", TRUE)}],
     medium |->
        [Name |-> "medium",
         Requirements |-> RequirementsAdd(NewRequirements,
            {[key |-> LabelArch, vals |-> {"amd"}],
             [key |-> LabelTopologyZone, vals |-> {"zA", "zB"}],
             [key |-> LabelCapacityType, vals |-> {"spot", "od"}]}),
         Allocatable |-> ResourceList(4, 4),
         Offerings |-> {Offering("zA", "spot", TRUE), Offering("zB", "od", TRUE)}],
     large |->
        [Name |-> "large",
         Requirements |-> RequirementsAdd(NewRequirements,
            {[key |-> LabelArch, vals |-> {"arm"}],
             [key |-> LabelTopologyZone, vals |-> {"zA", "zB"}],
             [key |-> LabelCapacityType, vals |-> {"od"}]}),
         Allocatable |-> ResourceList(8, 8),
         Offerings |-> {Offering("zB", "od", TRUE), Offering("zA", "od", FALSE)}],
     retired |->
        [Name |-> "retired",
         Requirements |-> RequirementsAdd(NewRequirements,
            {[key |-> LabelArch, vals |-> {"amd"}],
             [key |-> LabelTopologyZone, vals |-> {"zA", "zB"}],
             [key |-> LabelCapacityType, vals |-> {"spot", "od"}]}),
         Allocatable |-> ResourceList(8, 8),
         Offerings |-> {Offering("zA", "od", FALSE), Offering("zB", "spot", FALSE)}]]

\* Offerings.Available()
Available(offerings) == {o \in offerings : o.Available}

\* InstanceType.Allocatable()
Allocatable(instanceType) == InstanceTypes[instanceType].Allocatable

\* the candidate lists a machine is built with
InstanceTypeLists == {<<"small", "medium", "large">>}

----------------------------------------------------------------------------
(* Pods                                                                    *)

NoSpread == "none"

PodSpecs ==
    [big    |-> [tolerations |-> {"gpu"}, hostPorts |-> {}, selector |-> NewRequirements,
                 spread |-> NoSpread, requests |-> ResourceList(3, 1)],
     web    |-> [tolerations |-> {}, hostPorts |-> {"tcp80"},
                 selector |-> Only(LabelTopologyZone, {"zB"}),
                 spread |-> NoSpread, requests |-> ResourceList(1, 2)],
     zonal  |-> [tolerations |-> {"gpu"}, hostPorts |-> {"tcp80"},
                 selector |-> RequirementsAdd(NewRequirements,
                    {[key |-> LabelTopologyZone, vals |-> {"zA"}],
                     [key |-> LabelCapacityType, vals |-> {"od"}]}),
                 spread |-> NoSpread, requests |-> ResourceList(1, 1)],
     spread |-> [tolerations |-> {"gpu"}, hostPorts |-> {}, selector |-> NewRequirements,
                 spread |-> LabelTopologyZone, requests |-> ResourceList(1, 1)],
     stray  |-> [tolerations |-> {"gpu"}, hostPorts |-> {},
                 selector |-> Only(LabelTopologyZone, {"zC"}),
                 spread |-> LabelTopologyZone, requests |-> ResourceList(1, 1)]]

Pods == DOMAIN PodSpecs

\* scheduling.NewPodRequirements(pod)
NewPodRequirements(pod) ==
    RequirementsAdd(NewRequirements, Values(PodSpecs[pod].selector))

\* resources.RequestsForPods(pod)
RequestsForPods(pod) == PodSpecs[pod].requests

----------------------------------------------------------------------------
(* Machine templates, daemon overhead                                      *)

MachineTemplates ==
    {[Requirements |-> Only(LabelTopologyZone, {"zB"}), Taints |-> {}],
     [Requirements |-> NewRequirements, Taints |-> {"gpu"}]}

DaemonResources == {ResourceList(1, 1)}

\* Taints.Tolerates(pod) == nil
Tolerates(taints, pod) == taints \subseteq PodSpecs[pod].tolerations

----------------------------------------------------------------------------
(* Host port ledger, one per machine                                       *)

NewHostPortUsage == {}

\* HostPortUsage.Validate(pod) == nil
Validate(hostPortUsage, pod) == hostPortUsage \cap PodSpecs[pod].hostPorts = {}

\* HostPortUsage.Add(ctx, pod)
HostPortUsageAdd(hostPortUsage, pod) == hostPortUsage \cup PodSpecs[pod].hostPorts

----------------------------------------------------------------------------
(* The topology tracker shared by every machine.  domains: the domain      *)
(* values registered per key; records: the placements recorded, in order.  *)

MaxSkew == 1

NoDomain == "none"

NewTopology ==
    [domains |-> [k \in Keys |-> IF k = LabelTopologyZone THEN Zones ELSE {}],
     records |-> <<>>]

\* Topology.Register(key, value)
Register(t, key, value) ==
    [t EXCEPT !.domains[key] = @ \cup {value}]

\* pods recorded in domain value d of the spread over key
DomainCount(t, key, d) ==
    Cardinality({i \in 1..Len(t.records) :
        /\ PodSpecs[t.records[i].pod].spread = key
        /\ t.records[i].requirements[key].has
        /\ t.records[i].requirements[key].vals = {d}})

\* the domain values of key the pod may use
PodDomains(t, key, podRequirements) ==
    IF Has(podRequirements, key)
    THEN t.domains[key] \cap Get(podRequirements, key)
    ELSE t.domains[key]

\* the domain values whose use keeps the spread within MaxSkew
FreeDomains(t, key, podRequirements) ==
    LET D == PodDomains(t, key, podRequirements) IN
    {d \in D : \A e \in D : DomainCount(t, key, d) + 1 - DomainCount(t, key, e) <= MaxSkew}

\* what the tracker may answer for this pod: one free domain value
TopologyChoices(t, pod) ==
    LET key == PodSpecs[pod].spread IN
    IF key = NoSpread THEN {NoDomain}
    ELSE LET free == FreeDomains(t, key, NewPodRequirements(pod)) IN
         IF free = {} THEN {NoDomain} ELSE free

\* Topology.AddRequirements(podRequirements, machineRequirements, pod)
AddRequirements(t, podRequirements, machineRequirements, pod, choice) ==
    LET key == PodSpecs[pod].spread IN
    IF key = NoSpread THEN [ok |-> TRUE, requirements |-> NewRequirements]
    ELSE IF choice \notin FreeDomains(t, key, podRequirements)
         THEN [ok |-> FALSE, requirements |-> NewRequirements]
         ELSE [ok |-> TRUE, requirements |-> Only(key, {choice})]

\* Topology.Record(pod, requirements)
Record(t, pod, requirements) ==
    [t EXCEPT !.records = Append(@, [pod |-> pod, requirements |-> requirements])]

----------------------------------------------------------------------------
(* Instance type filtering                                                 *)

compatible(instanceType, requirements) ==
    Intersects(InstanceTypes[instanceType].Requirements, requirements)

fits(instanceType, requests) ==
    Fits(requests, Allocatable(instanceType))

\* fault: the zone and the capacity type are matched by offerings of their own
hasOfferingPerDimension(instanceType, requirements) ==
    /\ \E offering \in Available(InstanceTypes[instanceType].Offerings) :
            \/ ~Has(requirements, LabelTopologyZone)
            \/ offering.Zone \in Get(requirements, LabelTopologyZone)
    /\ \E offering \in Available(InstanceTypes[instanceType].Offerings) :
            \/ ~Has(requirements, LabelCapacityType)
            \/ offering.CapacityType \in Get(requirements, LabelCapacityType)

hasOffering(instanceType, requirements) ==
    \E offering \in Available(InstanceTypes[instanceType].Offerings) :
        /\ (~Has(requirements, LabelTopologyZone)
                \/ offering.Zone \in Get(requirements, LabelTopologyZone))
        /\ (~Has(requirements, LabelCapacityType)
                \/ offering.CapacityType \in Get(requirements, LabelCapacityType))

\* fault: the offering test is left out of the predicate
keepInstanceTypeNoOffering(instanceType, requirements, requests) ==
    /\ compatible(instanceType, requirements)
    /\ fits(instanceType, requests)

\* the predicate lo.Filter keeps an instance type by
keepInstanceType(instanceType, requirements, requests) ==
    /\ compatible(instanceType, requirements)
    /\ fits(instanceType, requests)
    /\ hasOffering(instanceType, requirements)

RECURSIVE filterLoopPrepend(_, _, _, _)
\* fault: a surviving instance type is put in front of those kept before it
filterLoopPrepend(instanceTypes, requirements, requests, acc) ==
    IF instanceTypes = <<>> THEN acc
    ELSE LET it == Head(instanceTypes) IN
         filterLoopPrepend(Tail(instanceTypes), requirements, requests,
            [results |->
                IF keepInstanceType(it, requirements, requests)
                THEN <<it>> \o acc.results ELSE acc.results,
             incompatCount |->
                acc.incompatCount + (IF ~compatible(it, requirements) THEN 1 ELSE 0),
             fitsCount |->
                acc.fitsCount + (IF ~fits(it, requests) THEN 1 ELSE 0),
             hasOfferingCount |->
                acc.hasOfferingCount + (IF ~hasOffering(it, requirements) THEN 1 ELSE 0)])

RECURSIVE filterLoopShortCircuit(_, _, _, _)
\* fault: an instance type is counted under the first test it fails only
filterLoopShortCircuit(instanceTypes, requirements, requests, acc) ==
    IF instanceTypes = <<>> THEN acc
    ELSE LET it == Head(instanceTypes) IN
         filterLoopShortCircuit(Tail(instanceTypes), requirements, requests,
            [results |->
                IF keepInstanceType(it, requirements, requests)
                THEN Append(acc.results, it) ELSE acc.results,
             incompatCount |->
                acc.incompatCount + (IF ~compatible(it, requirements) THEN 1 ELSE 0),
             fitsCount |->
                acc.fitsCount + (IF compatible(it, requirements) /\ ~fits(it, requests)
                                 THEN 1 ELSE 0),
             hasOfferingCount |->
                acc.hasOfferingCount
                    + (IF compatible(it, requirements) /\ fits(it, requests)
                            /\ ~hasOffering(it, requirements)
                       THEN 1 ELSE 0)])

RECURSIVE filterLoop(_, _, _, _)
filterLoop(instanceTypes, requirements, requests, acc) ==
    IF instanceTypes = <<>> THEN acc
    ELSE LET it == Head(instanceTypes) IN
         filterLoop(Tail(instanceTypes), requirements, requests,
            [results |->
                IF keepInstanceType(it, requirements, requests)
                THEN Append(acc.results, it) ELSE acc.results,
             incompatCount |->
                acc.incompatCount + (IF ~compatible(it, requirements) THEN 1 ELSE 0),
             fitsCount |->
                acc.fitsCount + (IF ~fits(it, requests) THEN 1 ELSE 0),
             hasOfferingCount |->
                acc.hasOfferingCount + (IF ~hasOffering(it, requirements) THEN 1 ELSE 0)])

\* returns the surviving instance types and the counts its message reports
filterInstanceTypesByRequirements(instanceTypes, requirements, requests) ==
    filterLoop(instanceTypes, requirements, requests,
        [results |-> <<>>, incompatCount |-> 0, fitsCount |-> 0, hasOfferingCount |-> 0])

----------------------------------------------------------------------------
(* InstanceTypeList                                                        *)

RECURSIVE InstanceTypeListLoopSix(_, _, _)
\* fault: the listing is cut after six names
InstanceTypeListLoopSix(instanceTypeOptions, i, itSb) ==
    IF i >= Len(instanceTypeOptions) THEN itSb
    ELSE IF i > 5
        THEN itSb \o " and " \o ToString(Len(instanceTypeOptions) - i) \o " other(s)"
    ELSE InstanceTypeListLoopSix(instanceTypeOptions, i + 1,
            (IF i > 0 THEN itSb \o ", " ELSE itSb)
                \o InstanceTypes[instanceTypeOptions[i + 1]].Name)

RECURSIVE InstanceTypeListLoop(_, _, _)
\* lines 198-207: the loop from index i on, itSb the text built so far
InstanceTypeListLoop(instanceTypeOptions, i, itSb) ==
    IF i >= Len(instanceTypeOptions) THEN itSb
    ELSE IF i > 4
        THEN itSb \o " and " \o ToString(Len(instanceTypeOptions) - i) \o " other(s)"
    ELSE InstanceTypeListLoop(instanceTypeOptions, i + 1,
            (IF i > 0 THEN itSb \o ", " ELSE itSb)
                \o InstanceTypes[instanceTypeOptions[i + 1]].Name)

InstanceTypeList(instanceTypeOptions) == InstanceTypeListLoop(instanceTypeOptions, 0, "")

----------------------------------------------------------------------------
(* Errors: the kind and the line of Add that returns it                    *)

NoCounts == [had |-> 0, incompatCount |-> 0, fitsCount |-> 0, hasOfferingCount |-> 0]

Err(kind, line) == [kind |-> kind, line |-> line, counts |-> NoCounts]

Nil == Err("nil", 180)
ErrTaint == Err("TaintIntolerance", 137)
ErrPortConflict == Err("PortConflict", 142)
ErrIncompatible == Err("IncompatibleRequirements", 150)
ErrTopology == Err("TopologyViolation", 157)
ErrTopologyIncompatible == Err("IncompatibleRequirements", 160)

ErrNoInstanceType(beforeOptsCount, filtered) ==
    [kind |-> "NoViableInstanceType", line |-> 169,
     counts |-> [had |-> beforeOptsCount,
                 incompatCount |-> filtered.incompatCount,
                 fitsCount |-> filtered.fitsCount,
                 hasOfferingCount |-> filtered.hasOfferingCount]]

----------------------------------------------------------------------------
(* NewMachine                                                              *)

\* fault: the counter is read, not advanced
AddInt64Stale(counter) == counter

\* atomic.AddInt64(&nodeID, 1): the new value
AddInt64(counter) == counter + 1

\* the digits of %04d
Pad04(n) ==
    IF n < 10 THEN "000" \o ToString(n)
    ELSE IF n < 100 THEN "00" \o ToString(n)
    ELSE IF n < 1000 THEN "0" \o ToString(n)
    ELSE ToString(n)

\* fmt.Sprintf("hostname-placeholder-%04d", id)
Hostname(id) == "hostname-placeholder-" \o Pad04(id)

\* fault: line 121 is left out, the copy keeps the requirement map of the
\* caller's template
NewMachineRequirementsShared(machineTemplate, hostname) ==
    LET heap0 == [caller |-> machineTemplate.Requirements, fresh |-> NewRequirements]
        ref == "caller"
        heap1 == [heap0 EXCEPT ![ref] = RequirementsAdd(@, Values(heap0.caller))]
        heap2 == [heap1 EXCEPT ![ref] =
                    RequirementsAdd(@, {[key |-> LabelHostname, vals |-> {hostname}]})]
    IN  [template |-> heap2[ref], caller |-> heap2.caller]

\* lines 120-123 on the two requirement maps in play: caller, the map the
\* caller's template points to, which the copy of line 120 shares, and
\* fresh, the map line 121 allocates; ref is the map template.Requirements
\* points to when lines 122 and 123 add to it.  Returns both maps as the
\* lines leave them.
NewMachineRequirements(machineTemplate, hostname) ==
    LET heap0 == [caller |-> machineTemplate.Requirements, fresh |-> NewRequirements]
        ref == "fresh"
        heap1 == [heap0 EXCEPT ![ref] = RequirementsAdd(@, Values(heap0.caller))]
        heap2 == [heap1 EXCEPT ![ref] =
                    RequirementsAdd(@, {[key |-> LabelHostname, vals |-> {hostname}]})]
    IN  [template |-> heap2[ref], caller |-> heap2.caller]

\* the caller's templates as a call of NewMachine on one of them leaves them
TemplatesAfter(machineTemplate, hostname) ==
    (templates \ {machineTemplate}) \cup
        {[machineTemplate EXCEPT
            !.Requirements = NewMachineRequirements(machineTemplate, hostname).caller]}

\* fault: the machine starts without the daemon overhead
BuildMachineNoDaemon(machineTemplate, hostname, daemonResources, instanceTypes) ==
    [Requirements |-> NewMachineRequirements(machineTemplate, hostname).template,
     Taints |-> machineTemplate.Taints,
     InstanceTypeOptions |-> instanceTypes,
     Requests |-> ResourceList(0, 0),
     Pods |-> <<>>,
     hostPortUsage |-> NewHostPortUsage]

\* the Machine NewMachine returns for the hostname it generated
BuildMachine(machineTemplate, hostname, daemonResources, instanceTypes) ==
    [Requirements |-> NewMachineRequirements(machineTemplate, hostname).template,
     Taints |-> machineTemplate.Taints,
     InstanceTypeOptions |-> instanceTypes,
     Requests |-> daemonResources,
     Pods |-> <<>>,
     hostPortUsage |-> NewHostPortUsage]

NoCalls == [new |-> {}, add |-> {}]

\* a call of Add is in progress on machine i
Busy(i) == \E frame \in calls.add : frame.m = i

\* the calls of NewMachine in progress
Building == Cardinality(calls.new)

RECURSIVE PodCount(_)
\* the pods the machines of a list hold
PodCount(ms) == IF ms = <<>> THEN 0 ELSE Len(Head(ms).Pods) + PodCount(Tail(ms))

\* the pods admitted so far, with those of the calls of Add past their checks
Admitted == PodCount(machines) + Cardinality(calls.add)

NewMachine(machineTemplate, daemonResources, instanceTypes) ==
    LET id == AddInt64(nodeID)
        hostname == Hostname(id)
    IN  /\ Len(machines) + Building < MaxMachines
        /\ nodeID' = id
        /\ topology' = Register(topology, LabelHostname, hostname)
        /\ templates' = TemplatesAfter(machineTemplate, hostname)
        /\ machines' = Append(machines,
                BuildMachine(machineTemplate, hostname, daemonResources, instanceTypes))
        /\ audit' = Append(audit, [hostname |-> hostname, finalized |-> FALSE])
        /\ lastOp' = [op |-> "NewMachine", m |-> Len(machines) + 1, pod |-> "none", err |-> Nil]
        /\ UNCHANGED <<calls, pure>>

----------------------------------------------------------------------------
(* Machine.Add                                                             *)

\* fault: the emptiness test never fires
NoInstanceTypesNever(instanceTypes) == Len(instanceTypes) < 0

\* len(instanceTypes) == 0
NoInstanceTypes(instanceTypes) == Len(instanceTypes) = 0

\* fault: the requests of the pod alone, the machine's own dropped
NewRequestsPodOnly(m, pod) == RequestsForPods(pod)

\* line 165: the requests of the machine with the pod on it
NewRequests(m, pod) == Merge(m.Requests, RequestsForPods(pod))

\* fault: the host ports are validated before the taints
AddChecksPortFirst(m, t, pod, choice) ==
    LET machineRequirements0 == RequirementsAdd(NewRequirements, Values(m.Requirements))
        podRequirements == NewPodRequirements(pod)
        machineRequirements1 == RequirementsAdd(machineRequirements0, Values(podRequirements))
        derived == AddRequirements(t, podRequirements, machineRequirements1, pod, choice)
        topologyRequirements == derived.requirements
        machineRequirements2 ==
            RequirementsAdd(machineRequirements1, Values(topologyRequirements))
        requests == NewRequests(m, pod)
        beforeOptsCount == Len(m.InstanceTypeOptions)
        filtered == filterInstanceTypesByRequirements(
                        m.InstanceTypeOptions, machineRequirements2, requests)
        locals == [instanceTypes |-> filtered.results, requests |-> requests,
                   machineRequirements |-> machineRequirements2]
    IN  IF ~Validate(m.hostPortUsage, pod) THEN [err |-> ErrPortConflict, locals |-> locals]
        ELSE IF ~Tolerates(m.Taints, pod) THEN [err |-> ErrTaint, locals |-> locals]
        ELSE IF ~Compatible(machineRequirements0, podRequirements)
            THEN [err |-> ErrIncompatible, locals |-> locals]
        ELSE IF ~derived.ok THEN [err |-> ErrTopology, locals |-> locals]
        ELSE IF ~Compatible(machineRequirements1, topologyRequirements)
            THEN [err |-> ErrTopologyIncompatible, locals |-> locals]
        ELSE IF NoInstanceTypes(filtered.results)
            THEN [err |-> ErrNoInstanceType(beforeOptsCount, filtered), locals |-> locals]
        ELSE [err |-> Nil, locals |-> locals]

\* lines 135-171: every check of Add, on local copies; the error it returns
\* (Nil when all pass) and the locals the commit uses
AddChecks(m, t, pod, choice) ==
    LET machineRequirements0 == RequirementsAdd(NewRequirements, Values(m.Requirements))
        podRequirements == NewPodRequirements(pod)
        machineRequirements1 == RequirementsAdd(machineRequirements0, Values(podRequirements))
        derived == AddRequirements(t, podRequirements, machineRequirements1, pod, choice)
        topologyRequirements == derived.requirements
        machineRequirements2 ==
            RequirementsAdd(machineRequirements1, Values(topologyRequirements))
        requests == NewRequests(m, pod)
        beforeOptsCount == Len(m.InstanceTypeOptions)
        filtered == filterInstanceTypesByRequirements(
                        m.InstanceTypeOptions, machineRequirements2, requests)
        locals == [instanceTypes |-> filtered.results, requests |-> requests,
                   machineRequirements |-> machineRequirements2]
    IN  IF ~Tolerates(m.Taints, pod) THEN [err |-> ErrTaint, locals |-> locals]
        ELSE IF ~Validate(m.hostPortUsage, pod) THEN [err |-> ErrPortConflict, locals |-> locals]
        ELSE IF ~Compatible(machineRequirements0, podRequirements)
            THEN [err |-> ErrIncompatible, locals |-> locals]
        ELSE IF ~derived.ok THEN [err |-> ErrTopology, locals |-> locals]
        ELSE IF ~Compatible(machineRequirements1, topologyRequirements)
            THEN [err |-> ErrTopologyIncompatible, locals |-> locals]
        ELSE IF NoInstanceTypes(filtered.results)
            THEN [err |-> ErrNoInstanceType(beforeOptsCount, filtered), locals |-> locals]
        ELSE [err |-> Nil, locals |-> locals]

\* fault: the filtered instance types are not stored
UpdateNodeStaleOptions(m, pod, locals) ==
    [m EXCEPT !.Pods = Append(@, pod),
              !.Requests = locals.requests,
              !.Requirements = locals.machineRequirements]

\* lines 173-177: the machine after the commit
UpdateNode(m, pod, locals) ==
    [m EXCEPT !.Pods = Append(@, pod),
              !.InstanceTypeOptions = locals.instanceTypes,
              !.Requests = locals.requests,
              !.Requirements = locals.machineRequirements]

\* fault: the pod's host ports are not claimed
CommitNoPorts(i, pod, locals) ==
    /\ machines' = [machines EXCEPT ![i] = UpdateNode(@, pod, locals)]
    /\ topology' = Record(topology, pod, locals.machineRequirements)

\* fault: the placement is recorded under the machine's requirements as
\* they were before the call
CommitRecordsStale(i, pod, locals) ==
    /\ machines' = [machines EXCEPT ![i] =
            [UpdateNode(@, pod, locals) EXCEPT
                !.hostPortUsage = HostPortUsageAdd(@, pod)]]
    /\ topology' = Record(topology, pod, machines[i].Requirements)

\* lines 173-180: the commit, on machine i
Commit(i, pod, locals) ==
    /\ machines' = [machines EXCEPT ![i] =
            [UpdateNode(@, pod, locals) EXCEPT
                !.hostPortUsage = HostPortUsageAdd(@, pod)]]
    /\ topology' = Record(topology, pod, locals.machineRequirements)

\* fault: the placement is recorded as soon as the topology checks pass,
\* before the instance types are filtered
AddRecordsEarly(i, pod, choice) ==
    LET checked == AddChecks(machines[i], topology, pod, choice) IN
    /\ i \in 1..Len(machines)
    /\ ~Busy(i)
    /\ Admitted < MaxPods
    /\ choice \in TopologyChoices(topology, pod)
    /\ IF checked.err = Nil
       THEN Commit(i, pod, checked.locals)
       ELSE /\ UNCHANGED machines
            /\ topology' = IF checked.err.line = 169
                            THEN Record(topology, pod, checked.locals.machineRequirements)
                            ELSE topology
    /\ lastOp' = [op |-> "Add", m |-> i, pod |-> pod, err |-> checked.err]
    /\ UNCHANGED <<templates, nodeID, audit, calls, pure>>

Add(i, pod, choice) ==
    LET checked == AddChecks(machines[i], topology, pod, choice) IN
    /\ i \in 1..Len(machines)
    /\ ~Busy(i)
    /\ Admitted < MaxPods
    /\ choice \in TopologyChoices(topology, pod)
    /\ IF checked.err = Nil
       THEN Commit(i, pod, checked.locals)
       ELSE UNCHANGED <<machines, topology>>
    /\ lastOp' = [op |-> "Add", m |-> i, pod |-> pod, err |-> checked.err]
    /\ UNCHANGED <<templates, nodeID, audit, calls, pure>>

----------------------------------------------------------------------------
(* Machine.FinalizeScheduling                                              *)

\* fault: every requirement is dropped, not the hostname alone
FinalizeSchedulingClears(i) ==
    /\ i \in 1..Len(machines)
    /\ ~Busy(i)
    /\ machines' = [machines EXCEPT ![i].Requirements = NewRequirements]
    /\ audit' = [audit EXCEPT ![i].finalized = TRUE]
    /\ lastOp' = [op |-> "FinalizeScheduling", m |-> i, pod |-> "none", err |-> Nil]
    /\ UNCHANGED <<templates, nodeID, topology, calls, pure>>

FinalizeScheduling(i) ==
    /\ i \in 1..Len(machines)
    /\ ~Busy(i)
    /\ machines' = [machines EXCEPT ![i].Requirements = Delete(@, LabelHostname)]
    /\ audit' = [audit EXCEPT ![i].finalized = TRUE]
    /\ lastOp' = [op |-> "FinalizeScheduling", m |-> i, pod |-> "none", err |-> Nil]
    /\ UNCHANGED <<templates, nodeID, topology, calls, pure>>

----------------------------------------------------------------------------
(* The orchestrator builds machines and adds pods, one call at a time      *)

NoCall == [fn |-> "none"]

NoMachines ==
    /\ nodeID = 0
    /\ templates = MachineTemplates
    /\ machines = <<>>
    /\ topology = NewTopology
    /\ audit = <<>>
    /\ lastOp = [op |-> "none", m |-> 0, pod |-> "none", err |-> Nil]
    /\ calls = NoCalls

Init ==
    /\ NoMachines
    /\ input = NoCall
    /\ output = NoCall

Next ==
    \/ \E machineTemplate \in templates, daemonResources \in DaemonResources,
          instanceTypes \in InstanceTypeLists :
            NewMachine(machineTemplate, daemonResources, instanceTypes)
    \/ \E i \in 1..MaxMachines, pod \in Pods, choice \in Zones \cup {NoDomain} :
            Add(i, pod, choice)

Spec == Init /\ [][Next]_vars

\* the same, FinalizeScheduling called on any machine at any time
LifecycleNext ==
    \/ Next
    \/ \E i \in 1..MaxMachines : FinalizeScheduling(i)

SpecLifecycle == Init /\ [][LifecycleNext]_vars

----------------------------------------------------------------------------
(* Goroutines calling NewMachine and Add in parallel, on different         *)
(* machines.  nodeID is touched by one atomic instruction and every call   *)
(* of the topology tracker is serialized by the tracker, so a call is      *)
(* interleaved with the others only between its accesses to them.          *)

\* line 118: the hostname counter is advanced
ParNewMachineBegin(machineTemplate, daemonResources, instanceTypes) ==
    /\ Len(machines) + Building < MaxMachines
    /\ nodeID' = AddInt64(nodeID)
    /\ calls' = [calls EXCEPT !.new = @ \cup
            {[id |-> AddInt64(nodeID),
              machineTemplate |-> machineTemplate,
              daemonResources |-> daemonResources,
              instanceTypes |-> instanceTypes]}]
    /\ UNCHANGED <<templates, machines, topology, audit, lastOp, pure>>

\* lines 119-131: the hostname is registered and the machine returned
ParNewMachineEnd(frame) ==
    LET hostname == Hostname(frame.id) IN
    /\ frame \in calls.new
    /\ topology' = Register(topology, LabelHostname, hostname)
    /\ templates' = TemplatesAfter(frame.machineTemplate, hostname)
    /\ machines' = Append(machines,
            BuildMachine(frame.machineTemplate, hostname,
                         frame.daemonResources, frame.instanceTypes))
    /\ audit' = Append(audit, [hostname |-> hostname, finalized |-> FALSE])
    /\ UNCHANGED lastOp
    /\ calls' = [calls EXCEPT !.new = @ \ {frame}]
    /\ UNCHANGED <<nodeID, pure>>

\* lines 135-171: the checks, AddRequirements reading the shared topology
ParAddBegin(i, pod, choice) ==
    LET checked == AddChecks(machines[i], topology, pod, choice) IN
    /\ i \in 1..Len(machines)
    /\ ~Busy(i)
    /\ Admitted < MaxPods
    /\ choice \in TopologyChoices(topology, pod)
    /\ calls' = IF checked.err = Nil
                THEN [calls EXCEPT !.add = @ \cup
                        {[m |-> i, pod |-> pod, locals |-> checked.locals]}]
                ELSE calls
    /\ UNCHANGED <<templates, nodeID, machines, topology, audit, lastOp, pure>>

\* lines 173-180: the commit, Record writing the shared topology
ParAddEnd(frame) ==
    /\ frame \in calls.add
    /\ Commit(frame.m, frame.pod, frame.locals)
    /\ UNCHANGED lastOp
    /\ calls' = [calls EXCEPT !.add = @ \ {frame}]
    /\ UNCHANGED <<templates, nodeID, audit, pure>>

ParNext ==
    \/ \E machineTemplate \in templates,
          daemonResources \in DaemonResources, instanceTypes \in InstanceTypeLists :
            ParNewMachineBegin(machineTemplate, daemonResources, instanceTypes)
    \/ \E frame \in calls.new : ParNewMachineEnd(frame)
    \/ \E i \in 1..MaxMachines, pod \in Pods, choice \in Zones \cup {NoDomain} :
            ParAddBegin(i, pod, choice)
    \/ \E frame \in calls.add : ParAddEnd(frame)

SpecPar == Init /\ [][ParNext]_vars

----------------------------------------------------------------------------
(* filterInstanceTypesByRequirements called on its own                     *)

\* requirement sets over zone, capacity type and architecture
FilterRequirements ==
    {RequirementsAdd(NewRequirements,
        {[key |-> LabelTopologyZone, vals |-> z] : z \in zs}
        \cup {[key |-> LabelCapacityType, vals |-> c] : c \in cs}
        \cup {[key |-> LabelArch, vals |-> a] : a \in as}) :
        zs \in {{}, {{"zA"}}, {{"zB"}}, {{"zA", "zB"}}},
        cs \in {{}, {{"spot"}}, {{"od"}}},
        as \in {{}, {{"amd"}}, {{"arm"}}}}

FilterRequests == {ResourceList(c, m) : c \in {1, 3, 5}, m \in {2, 5}}

FilterLists ==
    {<<>>, <<"medium">>, <<"small", "medium", "large">>, <<"large", "small", "large">>}

FilterInit ==
    /\ NoMachines
    /\ input \in [fn : {"filterInstanceTypesByRequirements"},
                  instanceTypes : FilterLists,
                  requirements : FilterRequirements,
                  requests : FilterRequests]
    /\ output = NoCall

CallFilter ==
    /\ input.fn = "filterInstanceTypesByRequirements"
    /\ output = NoCall
    /\ output' = filterInstanceTypesByRequirements(
                    input.instanceTypes, input.requirements, input.requests)
    /\ UNCHANGED <<templates, nodeID, machines, topology, audit,
                   lastOp, calls, input>>

\* the same call made once more, with the arguments as the first call left them
CallFilterAgain ==
    /\ input.fn = "filterInstanceTypesByRequirements"
    /\ output # NoCall
    /\ lastOp.op = "none"
    /\ output' = filterInstanceTypesByRequirements(
                    input.instanceTypes, input.requirements, input.requests)
    /\ lastOp' = [lastOp EXCEPT !.op = "filterInstanceTypesByRequirements"]
    /\ UNCHANGED <<templates, nodeID, machines, topology, audit, calls, input>>

FilterNext ==
    \/ CallFilter
    \/ CallFilterAgain

SpecFilter == FilterInit /\ [][FilterNext]_vars

----------------------------------------------------------------------------
(* hasOffering called on its own                                           *)

OfferingInit ==
    /\ NoMachines
    /\ input \in [fn : {"hasOffering"},
                  instanceType : DOMAIN InstanceTypes,
                  requirements : FilterRequirements]
    /\ output = NoCall

CallHasOffering ==
    /\ input.fn = "hasOffering"
    /\ output = NoCall
    /\ output' = [fn |-> "hasOffering",
                  result |-> hasOffering(input.instanceType, input.requirements)]
    /\ UNCHANGED <<templates, nodeID, machines, topology, audit,
                   lastOp, calls, input>>

OfferingNext == CallHasOffering

SpecOffering == OfferingInit /\ [][OfferingNext]_vars

----------------------------------------------------------------------------
(* InstanceTypeList called on its own                                      *)

\* the lists of up to MaxListLen instance types
ListLists == UNION {[1..n -> {"small", "medium", "large"}] : n \in 0..MaxListLen}

ListInit ==
    /\ NoMachines
    /\ input \in [fn : {"InstanceTypeList"}, instanceTypeOptions : ListLists]
    /\ output = NoCall

CallInstanceTypeList ==
    /\ input.fn = "InstanceTypeList"
    /\ output = NoCall
    /\ output' = [fn |-> "InstanceTypeList",
                  result |-> InstanceTypeList(input.instanceTypeOptions)]
    /\ UNCHANGED <<templates, nodeID, machines, topology, audit,
                   lastOp, calls, input>>

ListNext == CallInstanceTypeList

SpecList == ListInit /\ [][ListNext]_vars

----------------------------------------------------------------------------
(* Properties                                                              *)

RECURSIVE IsSubSeq(_, _)
\* a is b with some elements left out, the others in b's order
IsSubSeq(a, b) ==
    IF a = <<>> THEN TRUE
    ELSE IF b = <<>> THEN FALSE
    ELSE IF Head(a) = Head(b) THEN IsSubSeq(Tail(a), Tail(b))
    ELSE IsSubSeq(a, Tail(b))

AddFailed == lastOp.op = "Add" /\ lastOp.err # Nil
AddSucceeded == lastOp.op = "Add" /\ lastOp.err = Nil

\* C1: an Add that returns an error, whichever check returned it, leaves
\* every field of every machine (Requirements, Requests,
\* InstanceTypeOptions, Pods, host-port claims) and the placements recorded
\* in the shared topology exactly as they were before the call.
C1_AddIsAtomic ==
    [][(lastOp'.op = "Add" /\ lastOp'.err # Nil)
        => (machines' = machines /\ topology' = topology)]_vars

\* an Add rejected by the instance type filter, on a machine that holds a
\* pod, with a placement on record
C1_Witness ==
    /\ AddFailed
    /\ lastOp.err.line = 169
    /\ Len(machines[lastOp.m].Pods) = 1
    /\ Len(topology.records) >= 1

\* C2: after a successful Add the machine's InstanceTypeOptions is not
\* empty; an Add whose filtered list is empty returns the
\* no-viable-instance-type error and leaves the machine, with the pods it
\* admitted before, as it was.
C2_NeverEmpty ==
    [][lastOp'.op = "Add" =>
        LET i == lastOp'.m IN
        /\ lastOp'.err = Nil => machines'[i].InstanceTypeOptions # <<>>
        /\ lastOp'.err.kind = "NoViableInstanceType" =>
                /\ machines'[i] = machines[i]
                /\ lastOp'.err.counts.had = Len(machines[i].InstanceTypeOptions)
        /\ \A j \in 1..Len(machines') :
                machines'[j].Pods # <<>> => machines'[j].InstanceTypeOptions # <<>>]_vars

\* a second pod rejected because its requests, added to those of the pod
\* admitted before, fit none of the instance types left
C2_Witness ==
    /\ AddFailed
    /\ lastOp.err.kind = "NoViableInstanceType"
    /\ Len(machines[lastOp.m].Pods) = 1
    /\ lastOp.err.counts.fitsCount = lastOp.err.counts.had
    /\ lastOp.err.counts.had >= 1

\* C3: the instance types filterInstanceTypesByRequirements returns are
\* exactly those of its input whose requirements share a value with the
\* given requirements on every key both constrain, whose allocatable
\* resources hold the requests in every component, and that have an
\* available offering in an allowed zone and of an allowed capacity type.
C3_Qualifies(t, R, q) ==
    LET it == InstanceTypes[t] IN
    /\ \A k \in Keys :
        (it.Requirements[k].has /\ R[k].has) =>
            \E v \in it.Requirements[k].vals : v \in R[k].vals
    /\ \A r \in ResourceNames : q[r] <= it.Allocatable[r]
    /\ \E o \in it.Offerings :
        /\ o.Available
        /\ R[LabelTopologyZone].has => o.Zone \in R[LabelTopologyZone].vals
        /\ R[LabelCapacityType].has => o.CapacityType \in R[LabelCapacityType].vals

C3_FilterCorrect ==
    output # NoCall =>
        SeqToSet(output.results) =
            {t \in SeqToSet(input.instanceTypes) :
                C3_Qualifies(t, input.requirements, input.requests)}

\* a call that keeps one instance type and drops two that are compatible
\* and large enough but have no matching offering
C3_Witness ==
    /\ output # NoCall
    /\ input.instanceTypes = <<"small", "medium", "large">>
    /\ output.results = <<"small">>
    /\ output.incompatCount = 0
    /\ output.fitsCount = 0
    /\ output.hasOfferingCount = 2

\* C4: across every call, on every machine, the InstanceTypeOptions after
\* the call is a sub-list of the one before, so it is no longer, and no
\* component of Requests is smaller than before.
C4_MonotonicNarrowing ==
    [][\A i \in 1..Len(machines) :
        /\ IsSubSeq(machines'[i].InstanceTypeOptions, machines[i].InstanceTypeOptions)
        /\ Len(machines'[i].InstanceTypeOptions) <= Len(machines[i].InstanceTypeOptions)
        /\ \A r \in ResourceNames : machines'[i].Requests[r] >= machines[i].Requests[r]]_vars

\* a machine narrowed to one instance type by its second admission
C4_Witness ==
    /\ AddSucceeded
    /\ Len(machines[lastOp.m].Pods) = 2
    /\ Len(machines[lastOp.m].InstanceTypeOptions) = 1
    /\ machines[lastOp.m].Requests["cpu"] >= 3

\* C5: on a machine that has admitted a pod, every instance type left in
\* InstanceTypeOptions is compatible with the machine's Requirements and
\* holds the machine's Requests, and there is at least one.
C5_Consistent ==
    \A i \in 1..Len(machines) :
        machines[i].Pods # <<>> =>
            /\ \A t \in SeqToSet(machines[i].InstanceTypeOptions) :
                /\ Intersects(InstanceTypes[t].Requirements, machines[i].Requirements)
                /\ Fits(machines[i].Requests, InstanceTypes[t].Allocatable)
            /\ \E t \in SeqToSet(machines[i].InstanceTypeOptions) :
                Fits(machines[i].Requests, InstanceTypes[t].Allocatable)

\* a machine that has admitted a pod and lost an instance type by it,
\* after an Add it rejected
C5_Witness ==
    /\ AddFailed
    /\ Len(machines[lastOp.m].Pods) = 1
    /\ Len(machines[lastOp.m].InstanceTypeOptions) = 2

\* C6: a machine that is not finalized holds a hostname requirement of
\* exactly one value, the one NewMachine generated for it, and that value
\* is registered with the topology; no two machines were given the same
\* value, whichever way parallel calls of NewMachine and Add interleave.
C6_UniqueHostname ==
    /\ \A i \in 1..Len(machines) :
        ~audit[i].finalized =>
            /\ Has(machines[i].Requirements, LabelHostname)
            /\ Cardinality(Get(machines[i].Requirements, LabelHostname)) = 1
            /\ Get(machines[i].Requirements, LabelHostname) = {audit[i].hostname}
            /\ audit[i].hostname \in topology.domains[LabelHostname]
    /\ \A i, j \in 1..Len(machines) :
        i # j => audit[i].hostname # audit[j].hostname
    /\ Cardinality(topology.domains[LabelHostname]) = Len(machines)

\* two machines whose calls of NewMachine overlapped and returned in the
\* other order, the first of them holding a pod
C6_Witness ==
    /\ Len(machines) = 2
    /\ audit[1].hostname = "hostname-placeholder-0002"
    /\ audit[2].hostname = "hostname-placeholder-0001"
    /\ Len(machines[1].Pods) >= 1

\* the ports the pods of a list ask for
PortsOf(pods) == UNION {PodSpecs[pods[j]].hostPorts : j \in 1..Len(pods)}

\* C7: on every machine the host ports claimed are exactly those of the
\* pods in Pods, and no two pods of a machine ask for the same port.
C7_LedgerMatchesPods ==
    \A i \in 1..Len(machines) :
        /\ machines[i].hostPortUsage = PortsOf(machines[i].Pods)
        /\ \A j, k \in 1..Len(machines[i].Pods) :
            j # k => PodSpecs[machines[i].Pods[j]].hostPorts
                        \cap PodSpecs[machines[i].Pods[k]].hostPorts = {}

\* a pod rejected for a port that a pod of the machine holds
C7_Witness ==
    /\ AddFailed
    /\ lastOp.err.kind = "PortConflict"
    /\ machines[lastOp.m].hostPortUsage = {"tcp80"}
    /\ Len(machines[lastOp.m].Pods) = 1

\* the first check of Add that fails for the pod, in the order taints, host
\* ports, pod requirements, topology query, topology requirements, instance
\* types; choice is the tracker's answer
C8_FirstFailure(m, t, pod, choice) ==
    LET spec == PodSpecs[pod]
        sel == spec.selector
        withPod == [k \in Keys |->
            IF m.Requirements[k].has /\ sel[k].has
            THEN NewRequirement(m.Requirements[k].vals \cap sel[k].vals)
            ELSE IF sel[k].has THEN sel[k] ELSE m.Requirements[k]]
        withTopology == [k \in Keys |->
            IF k # spec.spread THEN withPod[k]
            ELSE IF withPod[k].has THEN NewRequirement(withPod[k].vals \cap {choice})
            ELSE NewRequirement({choice})]
    IN  IF \E taint \in m.Taints : taint \notin spec.tolerations
            THEN <<"TaintIntolerance", 137>>
        ELSE IF \E port \in spec.hostPorts : port \in m.hostPortUsage
            THEN <<"PortConflict", 142>>
        ELSE IF \E k \in Keys : m.Requirements[k].has /\ sel[k].has
                                    /\ m.Requirements[k].vals \cap sel[k].vals = {}
            THEN <<"IncompatibleRequirements", 150>>
        ELSE IF spec.spread # NoSpread /\ choice \notin FreeDomains(t, spec.spread, sel)
            THEN <<"TopologyViolation", 157>>
        ELSE IF spec.spread # NoSpread /\ withPod[spec.spread].has
                    /\ choice \notin withPod[spec.spread].vals
            THEN <<"IncompatibleRequirements", 160>>
        ELSE IF \A j \in 1..Len(m.InstanceTypeOptions) :
                    ~C3_Qualifies(m.InstanceTypeOptions[j], withTopology,
                                  [r \in ResourceNames |-> m.Requests[r] + spec.requests[r]])
            THEN <<"NoViableInstanceType", 169>>
        ELSE <<"nil", 180>>

\* C8: the error Add returns is that of the first failing check in the
\* order taints, host ports, pod requirements, topology query, topology
\* requirements, instance types; a pod that does not tolerate a taint of
\* the machine gets the taint error whatever else is wrong with it, and a
\* topology requirement that contradicts the working requirements gets an
\* incompatible-requirements error.
C8_CheckOrder ==
    [][lastOp'.op = "Add" =>
        /\ \E choice \in TopologyChoices(topology, lastOp'.pod) :
            <<lastOp'.err.kind, lastOp'.err.line>> =
                C8_FirstFailure(machines[lastOp'.m], topology, lastOp'.pod, choice)
        /\ ~(machines[lastOp'.m].Taints \subseteq PodSpecs[lastOp'.pod].tolerations)
                => lastOp'.err.kind = "TaintIntolerance"
        /\ lastOp'.err.line = 160 => lastOp'.err.kind = "IncompatibleRequirements"]_vars

\* a pod rejected for a taint though its port is taken and its zone
\* contradicts the machine's as well
C8_Witness ==
    /\ AddFailed
    /\ lastOp.err.kind = "TaintIntolerance"
    /\ PodSpecs[lastOp.pod].hostPorts \cap machines[lastOp.m].hostPortUsage # {}
    /\ ~Intersects(machines[lastOp.m].Requirements, PodSpecs[lastOp.pod].selector)

\* C9: a successful Add appends exactly one placement to the topology, the
\* pod under the requirements the machine stores after the call, which
\* narrow the machine's requirements before the call and the pod's own and
\* name one free domain of the pod's spread; any other call leaves the
\* placements alone, so the placements on record are those of the pods the
\* machines hold.
C9_RecordAtCommit ==
    [][IF lastOp'.op = "Add" /\ lastOp'.err = Nil
       THEN LET i == lastOp'.m
                pod == lastOp'.pod
                rec == machines'[i].Requirements
            IN  /\ topology'.records =
                        Append(topology.records, [pod |-> pod, requirements |-> rec])
                /\ machines'[i].Pods = Append(machines[i].Pods, pod)
                /\ \A k \in Keys :
                    /\ machines[i].Requirements[k].has =>
                        (rec[k].has /\ rec[k].vals \subseteq machines[i].Requirements[k].vals)
                    /\ PodSpecs[pod].selector[k].has =>
                        (rec[k].has /\ rec[k].vals \subseteq PodSpecs[pod].selector[k].vals)
                    /\ PodSpecs[pod].spread = k =>
                        /\ rec[k].has
                        /\ Cardinality(rec[k].vals) = 1
                        /\ rec[k].vals \subseteq
                                FreeDomains(topology, k, PodSpecs[pod].selector)
       ELSE /\ topology'.records = topology.records
            /\ \A i \in 1..Len(machines) : machines'[i].Pods = machines[i].Pods]_vars

\* a spread pod admitted to the second machine after the first machine
\* admitted one
C9_Witness ==
    /\ AddSucceeded
    /\ lastOp.m = 2
    /\ lastOp.pod = "spread"
    /\ Len(machines[1].Pods) >= 1
    /\ Len(topology.records) = 2
    /\ topology.records[2].requirements = machines[2].Requirements

Occurrences(list, e) == Cardinality({j \in 1..Len(list) : list[j] = e})

C12_Working(m, pod, choice) ==
    LET sel == PodSpecs[pod].selector
        withPod == [k \in Keys |->
            IF m.Requirements[k].has /\ sel[k].has
            THEN NewRequirement(m.Requirements[k].vals \cap sel[k].vals)
            ELSE IF sel[k].has THEN sel[k] ELSE m.Requirements[k]]
    IN  [k \in Keys |->
            IF k # PodSpecs[pod].spread THEN withPod[k]
            ELSE IF withPod[k].has THEN NewRequirement(withPod[k].vals \cap {choice})
            ELSE NewRequirement({choice})]

\* per test, the places of the list whose instance type fails it
C12_Counts(list, R, q) ==
    [incompatCount |-> Cardinality({j \in 1..Len(list) :
        \E k \in Keys :
            /\ InstanceTypes[list[j]].Requirements[k].has
            /\ R[k].has
            /\ InstanceTypes[list[j]].Requirements[k].vals \cap R[k].vals = {}}),
     fitsCount |-> Cardinality({j \in 1..Len(list) :
        \E r \in ResourceNames : q[r] > InstanceTypes[list[j]].Allocatable[r]}),
     hasOfferingCount |-> Cardinality({j \in 1..Len(list) :
        \A o \in InstanceTypes[list[j]].Offerings :
            \/ ~o.Available
            \/ (R[LabelTopologyZone].has /\ o.Zone \notin R[LabelTopologyZone].vals)
            \/ (R[LabelCapacityType].has
                    /\ o.CapacityType \notin R[LabelCapacityType].vals)})]

\* C12: the three counts the filter returns are, each on its own, the
\* number of candidates that are incompatible, that do not fit and that
\* have no matching offering, a candidate failing several tests counted
\* under each; the no-viable-instance-type error of Add carries these
\* counts, taken over the machine's candidates under the requirements and
\* requests of the attempt, and the number of candidates the machine had.
C12_CompleteDiagnostics ==
    [][/\ (output' # NoCall /\ input.fn = "filterInstanceTypesByRequirements") =>
            [incompatCount |-> output'.incompatCount,
             fitsCount |-> output'.fitsCount,
             hasOfferingCount |-> output'.hasOfferingCount]
                = C12_Counts(input.instanceTypes, input.requirements, input.requests)
       /\ (lastOp'.op = "Add" /\ lastOp'.err.kind = "NoViableInstanceType") =>
            LET m == machines[lastOp'.m]
                pod == lastOp'.pod
                q == [r \in ResourceNames |-> m.Requests[r] + PodSpecs[pod].requests[r]]
            IN  /\ lastOp'.err.counts.had = Len(m.InstanceTypeOptions)
                /\ \E choice \in TopologyChoices(topology, pod) :
                    [incompatCount |-> lastOp'.err.counts.incompatCount,
                     fitsCount |-> lastOp'.err.counts.fitsCount,
                     hasOfferingCount |-> lastOp'.err.counts.hasOfferingCount]
                        = C12_Counts(m.InstanceTypeOptions,
                                     C12_Working(m, pod, choice), q)]_vars

\* a pod rejected by a machine narrowed to two candidates, one of which
\* neither holds the requests nor has a matching offering
C12_Witness ==
    /\ AddFailed
    /\ lastOp.err.kind = "NoViableInstanceType"
    /\ lastOp.err.counts.had = 2
    /\ lastOp.err.counts.fitsCount = 1
    /\ lastOp.err.counts.hasOfferingCount = 2
    /\ Len(machines[lastOp.m].InstanceTypeOptions) = 2

RECURSIVE C13_Joined(_)
\* the names of a list of instance types, ", " between neighbours
C13_Joined(list) ==
    IF list = <<>> THEN ""
    ELSE IF Len(list) = 1 THEN InstanceTypes[list[1]].Name
    ELSE C13_Joined(SubSeq(list, 1, Len(list) - 1))
            \o ", " \o InstanceTypes[list[Len(list)]].Name

\* C13: for N instance types InstanceTypeList returns every name in input
\* order, ", " between them, when N is at most 5 (the empty text for none),
\* and the first five names so joined followed by " and N-5 other(s)" when
\* N is more than 5.
C13_TruncatedListing ==
    (output # NoCall /\ input.fn = "InstanceTypeList") =>
        LET list == input.instanceTypeOptions
            N == Len(list)
        IN  /\ N = 0 => output.result = ""
            /\ N <= 5 => output.result = C13_Joined(list)
            /\ N > 5 => output.result =
                    C13_Joined(SubSeq(list, 1, 5))
                        \o " and " \o ToString(N - 5) \o " other(s)"

\* a listing of seven instance types, cut after the fifth
C13_Witness ==
    /\ output # NoCall
    /\ input.fn = "InstanceTypeList"
    /\ input.instanceTypeOptions =
            <<"large", "small", "medium", "small", "large", "medium", "small">>
    /\ output.result = "large, small, medium, small, large and 2 other(s)"

\* C14: FinalizeScheduling takes the hostname key out of the machine's
\* Requirements and leaves every other key with its values, the Requests,
\* InstanceTypeOptions, Pods, taints and host-port claims of the machine,
\* every other machine, the hostname counter and the shared topology as
\* they were; no other call takes a key out of a machine's Requirements.
C14_FinalizationFrame ==
    [][/\ lastOp'.op = "FinalizeScheduling" =>
            LET i == lastOp'.m IN
            /\ ~Has(machines'[i].Requirements, LabelHostname)
            /\ \A k \in Keys \ {LabelHostname} :
                    machines'[i].Requirements[k] = machines[i].Requirements[k]
            /\ machines'[i].Requests = machines[i].Requests
            /\ machines'[i].InstanceTypeOptions = machines[i].InstanceTypeOptions
            /\ machines'[i].Pods = machines[i].Pods
            /\ machines'[i].Taints = machines[i].Taints
            /\ machines'[i].hostPortUsage = machines[i].hostPortUsage
            /\ \A j \in 1..Len(machines) : j # i => machines'[j] = machines[j]
            /\ Len(machines') = Len(machines)
            /\ topology' = topology
            /\ nodeID' = nodeID
       /\ \A i \in 1..Len(machines), k \in Keys :
            (Has(machines[i].Requirements, k) /\ ~Has(machines'[i].Requirements, k))
                => (k = LabelHostname /\ lastOp'.op = "FinalizeScheduling"
                        /\ lastOp'.m = i)]_vars

\* a machine finalized with a pod on it, a zone requirement, a port claimed
\* and a placement on record
C14_Witness ==
    /\ lastOp.op = "FinalizeScheduling"
    /\ Len(machines[lastOp.m].Pods) = 1
    /\ ~Has(machines[lastOp.m].Requirements, LabelHostname)
    /\ Has(machines[lastOp.m].Requirements, LabelTopologyZone)
    /\ machines[lastOp.m].hostPortUsage # {}
    /\ Len(topology.records) >= 1
    /\ Has(topology.records[1].requirements, LabelHostname)

RECURSIVE C15_Sum(_, _)
\* the requests of the pods of a list for one resource, added up
C15_Sum(pods, r) ==
    IF pods = <<>> THEN 0
    ELSE PodSpecs[Head(pods)].requests[r] + C15_Sum(Tail(pods), r)

\* C15: NewMachine returns a machine whose Requests are the daemon
\* overhead and whose Pods are empty; a successful Add appends its pod to
\* the Pods of its machine and no other call changes any Pods, so Pods is
\* the sequence of the pods admitted, in admission order; and after every
\* call the Requests of every machine are the daemon overhead plus, per
\* resource, the sum of the requests of its Pods.
C15_Accounting ==
    [][/\ lastOp'.op = "NewMachine" =>
            /\ Len(machines') = Len(machines) + 1
            /\ machines'[Len(machines')].Pods = <<>>
            /\ machines'[Len(machines')].Requests \in DaemonResources
       /\ \A i \in 1..Len(machines) :
            machines'[i].Pods =
                IF lastOp'.op = "Add" /\ lastOp'.err = Nil /\ lastOp'.m = i
                THEN Append(machines[i].Pods, lastOp'.pod)
                ELSE machines[i].Pods
       /\ \A i \in 1..Len(machines') :
            \E daemonResources \in DaemonResources :
                \A r \in ResourceNames :
                    machines'[i].Requests[r] =
                        daemonResources[r] + C15_Sum(machines'[i].Pods, r)]_vars

\* a machine that admitted two different pods one after the other
C15_Witness ==
    /\ AddSucceeded
    /\ machines[lastOp.m].Pods = <<"big", "spread">>
    /\ machines[lastOp.m].Requests = ResourceList(5, 3)

\* C16: an Add called on a machine after its FinalizeScheduling changes
\* neither the Requirements, Requests, InstanceTypeOptions, Pods and
\* host-port claims of the machine nor the placements on record in the
\* shared topology, and the hostname key stays out of its Requirements.
C16_ImmutableAfterFinalize ==
    [][\A i \in 1..Len(machines) :
        (audit[i].finalized /\ lastOp'.op = "Add" /\ lastOp'.m = i) =>
            /\ machines'[i] = machines[i]
            /\ topology'.records = topology.records
            /\ ~Has(machines'[i].Requirements, LabelHostname)]_vars

\* the offerings of an instance type that can be had in a zone and of a
\* capacity type the requirements allow
C17_Matching(t, R) ==
    {o \in InstanceTypes[t].Offerings : o.Available}
        \cap {o \in InstanceTypes[t].Offerings :
                R[LabelTopologyZone].has => o.Zone \in R[LabelTopologyZone].vals}
        \cap {o \in InstanceTypes[t].Offerings :
                R[LabelCapacityType].has =>
                    o.CapacityType \in R[LabelCapacityType].vals}

\* C17: hasOffering holds exactly when one available offering of the
\* instance type lies in an allowed zone and is of an allowed capacity
\* type, a key the requirements leave open allowing every value; it never
\* holds for an instance type without an available offering.  So a machine
\* that admitted a pod asking for zone zA keeps only instance types with an
\* available offering in zA.
C17_OfferingPredicate ==
    /\ (output # NoCall /\ input.fn = "hasOffering") =>
            /\ output.result = (C17_Matching(input.instanceType, input.requirements) # {})
            /\ (\A o \in InstanceTypes[input.instanceType].Offerings : ~o.Available)
                    => ~output.result
    /\ \A i \in 1..Len(machines) :
            (\E j \in 1..Len(machines[i].Pods) :
                    PodSpecs[machines[i].Pods[j]].selector[LabelTopologyZone]
                        = NewRequirement({"zA"})) =>
                \A t \in SeqToSet(machines[i].InstanceTypeOptions) :
                    \E o \in InstanceTypes[t].Offerings : o.Available /\ o.Zone = "zA"

\* an instance type with an available offering in the zone asked for and
\* another of the capacity type asked for, but none that is both
C17_Witness ==
    /\ output # NoCall
    /\ input.fn = "hasOffering"
    /\ input.instanceType = "medium"
    /\ Get(input.requirements, LabelTopologyZone) = {"zA"}
    /\ Get(input.requirements, LabelCapacityType) = {"od"}
    /\ output.result = FALSE

\* C18: no call changes a template the caller holds, and a call of Add or
\* FinalizeScheduling on one machine, like a call of NewMachine, leaves
\* the Requirements, Requests, InstanceTypeOptions, Pods, taints and
\* host-port claims of every other machine as they were, machines built
\* from the same template, daemon overhead and candidate list included.
C18_Isolation ==
    [][/\ templates' = templates
       /\ templates = MachineTemplates
       /\ Len(machines') >= Len(machines)
       /\ \A j \in 1..Len(machines) :
            j # lastOp'.m => machines'[j] = machines[j]]_vars

\* two machines built from one template, the first finalized after it
\* admitted a pod, the second still as NewMachine returned it
C18_Witness ==
    /\ Len(machines) = 2
    /\ machines[1].Taints = machines[2].Taints
    /\ lastOp.op = "FinalizeScheduling"
    /\ lastOp.m = 1
    /\ Len(machines[1].Pods) = 1
    /\ Len(machines[1].InstanceTypeOptions) < Len(machines[2].InstanceTypeOptions)
    /\ machines[2].Pods = <<>>
    /\ machines[2].Requests \in DaemonResources
    /\ Has(machines[2].Requirements, LabelHostname)
    /\ templates = MachineTemplates

====
